---- MODULE Spec2Model ----
(***************************************************************************)
(* The review scheduler of the SmashEnglish FastAPI service (src/main.py). *)
(*                                                                         *)
(* The service is stateless; its state is the MySQL database.  Every       *)
(* handler opens its own connection, runs a few SQL statements and         *)
(* commits.  Several server workers may run handlers at once, so a handler *)
(* is modelled as a process whose steps are its SQL statements; the Python *)
(* code between two statements is part of the step that follows it.        *)
(*                                                                         *)
(* Time is a counter of instants; TicksPerDay instants make a calendar     *)
(* day.  An interval shorter than a day (the learning steps of the FSRS    *)
(* scheduler, which are minutes) is one instant.                           *)
(***************************************************************************)
EXTENDS Integers, Sequences, FiniteSets, TLC

VARIABLES now, saved_words, daily_notes, review_articles,
          nextWordId, nextNoteId, nextArticleId, pc, loc, resp, requests,
          empty_dates

vars == <<now, saved_words, daily_notes, review_articles,
          nextWordId, nextNoteId, nextArticleId, pc, loc, resp, requests,
          empty_dates>>

----------------------------------------------------------------------------
(* Bounds *)

MaxTime == 2
TicksPerDay == 2
MaxWordRows == 2
MaxProcs == 2
MaxBatchExtra == 2
MaxRequests == 2

(* Program constants *)

BatchLimit == 30
StateLearning == 1
StateReview == 2
StateRelearning == 3

NULL == -1
Procs == 1..MaxProcs
Texts == 1..MaxWordRows

----------------------------------------------------------------------------
(* Time *)

DateOf(t) == t \div TicksPerDay

DaysBetween(later, earlier) == (later - earlier) \div TicksPerDay

----------------------------------------------------------------------------
(* Generic helpers for SQL result sets *)

RECURSIVE Perms(_)
Perms(S) ==
    IF S = {} THEN {<<>>}
    ELSE UNION {{<<x>> \o s : s \in Perms(S \ {x})} : x \in S}

Range(s) == {s[i] : i \in 1..Len(s)}

(* ORDER BY rank ASC LIMIT k: every sequence the server may return.  Rows  *)
(* with equal sort keys come in an unspecified order.                      *)
RECURSIVE OrderByLimit(_, _, _)
OrderByLimit(S, rank, k) ==
    IF S = {} \/ k = 0 THEN {<<>>}
    ELSE LET m == CHOOSE x \in S : \A y \in S : rank[x] <= rank[y]
             G == {x \in S : rank[x] = rank[m]}
         IN  IF Cardinality(G) >= k
             THEN UNION {Perms(T) : T \in {U \in SUBSET G : Cardinality(U) = k}}
             ELSE {g \o r : g \in Perms(G),
                            r \in OrderByLimit(S \ G, rank, k - Cardinality(G))}

----------------------------------------------------------------------------
(* Tables *)

(* INSERT INTO saved_words (word, context, url, data, note_id): the memory *)
(* columns take their defaults; due stays NULL until the first review.     *)
NewWordRow(w, note) ==
    [word |-> w, note_id |-> note, reps |-> 0, due |-> NULL,
     last_review |-> NULL, state |-> 0,
     scheduled_days |-> 0, elapsed_days |-> 0]

ArticleRow(id, day, ids, imported) ==
    [id |-> id, review_date |-> day, words_json |-> ids, imported |-> imported]

ArticlesOn(day) == {a \in review_articles : a.review_date = day}

InsertArticleOkNoKey(day) == TRUE

(* INSERT INTO review_articles: review_date is a unique key of the store.  *)
InsertArticleOk(day) == ArticlesOn(day) = {}

(* The candidate query of get_today_review.                                *)
IsCandidate(sw, i, t) ==
    (sw[i].due # NULL /\ sw[i].due <= t) \/ sw[i].reps = 0

Candidates(sw, t) == {i \in DOMAIN sw : IsCandidate(sw, i, t)}

CandidateRankDueOnly(sw, S) == [i \in S |-> sw[i].due + 1]

(* ORDER BY (CASE WHEN reps = 0 THEN 1 ELSE 0 END) ASC, due ASC as one    *)
(* integer key; a NULL due sorts before every date.                        *)
MaxOf(S) == CHOOSE x \in S : \A y \in S : y <= x

CandidateRank(sw, S) ==
    LET base == 2 + MaxOf({sw[i].due : i \in S} \cup {0})
    IN  [i \in S |-> (IF sw[i].reps = 0 THEN 1 ELSE 0) * base + (sw[i].due + 1)]

SelectAllWords(sw, t) ==
    OrderByLimit(DOMAIN sw, CandidateRank(sw, DOMAIN sw), BatchLimit)

SelectDueOrNew(sw, t) ==
    OrderByLimit(Candidates(sw, t), CandidateRank(sw, Candidates(sw, t)), BatchLimit)

(* [word_map[wid] for wid in word_ids if wid in word_map]                  *)
ExistingWords(sw, ids) == SelectSeq(ids, LAMBDA i : i \in DOMAIN sw)

----------------------------------------------------------------------------
(* Responses *)

NoRet == [op |-> "none", status |-> 0, today |-> NULL, ids |-> <<>>,
          words |-> <<>>, is_new |-> FALSE, article |-> FALSE]

NoLoc == <<>>

TodayRet(day, hasArticle, ids, words, isNew) ==
    [op |-> "today", status |-> 200, today |-> day, ids |-> ids,
     words |-> words, is_new |-> isNew, article |-> hasArticle]

ErrorRet(op, day, code) ==
    [op |-> op, status |-> code, today |-> day, ids |-> <<>>,
     words |-> <<>>, is_new |-> FALSE, article |-> FALSE]

OkRet(op, day) ==
    [op |-> op, status |-> 200, today |-> day, ids |-> <<>>,
     words |-> <<>>, is_new |-> FALSE, article |-> FALSE]

----------------------------------------------------------------------------
(* The database when the service starts: empty, or holding the words an   *)
(* earlier run saved at instant 0: a word never reviewed, in Learning      *)
(* after a first review, or in Review after an Easy first review.          *)
StoredWord(w, reps, st, days) ==
    [word |-> w, note_id |-> 1, reps |-> reps,
     due |-> IF reps = 0 THEN NULL
             ELSE IF days = 0 THEN 1 ELSE days * TicksPerDay,
     last_review |-> IF reps = 0 THEN NULL ELSE 0, state |-> st,
     scheduled_days |-> days, elapsed_days |-> 0]

InitialWords ==
    {<<StoredWord(1, 0, 0, 0)>>,
     <<StoredWord(1, 1, StateLearning, 0)>>,
     <<StoredWord(1, 1, StateReview, 1)>>,
     <<StoredWord(1, 0, 0, 0), StoredWord(2, 1, StateLearning, 0)>>}

Init ==
    /\ now = 0
    /\ \/ /\ saved_words = <<>>
          /\ daily_notes = <<>>
          /\ nextWordId = 1
          /\ nextNoteId = 1
       \/ \E ws \in InitialWords :
          /\ saved_words = ws
          /\ daily_notes = <<[day |-> 0, word_count |-> Len(ws)]>>
          /\ nextWordId = Len(ws) + 1
          /\ nextNoteId = 2
    /\ review_articles = {}
    /\ nextArticleId = 1
    /\ pc = [p \in Procs |-> "idle"]
    /\ loc = [p \in Procs |-> NoLoc]
    /\ resp = NoRet
    /\ requests = 0
    /\ empty_dates = {}

Tick ==
    /\ now < MaxTime
    /\ now' = now + 1
    /\ resp' = NoRet
    /\ UNCHANGED <<saved_words, daily_notes, review_articles,
                   nextWordId, nextNoteId, nextArticleId, pc, loc, requests,
                   empty_dates>>

Others == <<saved_words, daily_notes, review_articles,
            nextWordId, nextNoteId, nextArticleId>>

(* History: the dates for which get_today_review answered with the empty  *)
(* queue marker.                                                           *)
NoEmptyAnswer == UNCHANGED empty_dates

(* A request arrives and goes to the first idle worker (the workers are    *)
(* interchangeable).                                                       *)
Accept(p) ==
    /\ pc[p] = "idle"
    /\ \A q \in Procs : q < p => pc[q] # "idle"

(* requests counts the handlers that run past their first statement; a     *)
(* request answered from its first SELECT leaves the database as it was.   *)
Count(p) ==
    IF pc[p] = "idle"
    THEN requests < MaxRequests /\ requests' = requests + 1
    ELSE requests' = requests

Finish(p, r) ==
    /\ UNCHANGED requests
    /\ pc' = [pc EXCEPT ![p] = "idle"]
    /\ loc' = [loc EXCEPT ![p] = NoLoc]
    /\ resp' = r

Goto(p, label, l) ==
    /\ Count(p)
    /\ pc' = [pc EXCEPT ![p] = label]
    /\ loc' = [loc EXCEPT ![p] = l]
    /\ resp' = NoRet

----------------------------------------------------------------------------
(* GET /fastapi/review/today *)

TodaySelectArticleRefresh(p) ==
    /\ Accept(p)
    /\ LET today == DateOf(now)
       IN  IF ArticlesOn(today) # {}
           THEN \E q \in SelectDueOrNew(saved_words, now) :
                    Finish(p, TodayRet(today, TRUE, q, q, FALSE))
           ELSE Goto(p, "today_candidates", [today |-> today])
    /\ UNCHANGED <<now, Others>>
    /\ NoEmptyAnswer

(* The lookup of today's row and, when it exists, the read of its words.   *)
TodaySelectArticle(p) ==
    /\ Accept(p)
    /\ LET today == DateOf(now)
       IN  IF ArticlesOn(today) # {}
           THEN \E a \in ArticlesOn(today) :
                    Finish(p, TodayRet(today, TRUE, a.words_json,
                                       ExistingWords(saved_words, a.words_json),
                                       FALSE))
           ELSE Goto(p, "today_candidates", [today |-> today])
    /\ UNCHANGED <<now, Others>>
    /\ NoEmptyAnswer

(* The candidate query; an empty result returns without a row.             *)
TodaySelectCandidates(p) ==
    /\ pc[p] = "today_candidates"
    /\ \E q \in SelectDueOrNew(saved_words, now) :
           IF q = <<>>
           THEN /\ Finish(p, TodayRet(loc[p].today, FALSE, <<>>, <<>>, TRUE))
                /\ empty_dates' = empty_dates \cup {loc[p].today}
           ELSE /\ Goto(p, "today_insert",
                        [today |-> loc[p].today, word_ids |-> q])
                /\ NoEmptyAnswer
    /\ UNCHANGED <<now, Others>>

(* INSERT of the placeholder row and commit.  A duplicate review_date      *)
(* raises, and the handler turns every exception into a 500 response.      *)
TodayInsert(p) ==
    /\ pc[p] = "today_insert"
    /\ IF InsertArticleOk(loc[p].today)
       THEN /\ review_articles' = review_articles \cup
                   {ArticleRow(nextArticleId, loc[p].today, loc[p].word_ids, FALSE)}
            /\ nextArticleId' = nextArticleId + 1
            /\ Finish(p, TodayRet(loc[p].today, TRUE, loc[p].word_ids,
                                  loc[p].word_ids, TRUE))
       ELSE /\ UNCHANGED <<review_articles, nextArticleId>>
            /\ Finish(p, ErrorRet("today", loc[p].today, 500))
    /\ UNCHANGED <<now, saved_words, daily_notes, nextWordId, nextNoteId>>
    /\ NoEmptyAnswer

AbandonedInsertPartialRow(p) ==
    IF pc[p] = "today_insert" /\ InsertArticleOk(loc[p].today)
    THEN {ArticleRow(nextArticleId, loc[p].today, <<>>, FALSE)}
    ELSE {}

(* What an INSERT that was never committed leaves in the table once the    *)
(* connection is closed: the store is transactional, the row is discarded. *)
AbandonedInsert(p) == {}

(* The handler fails or is abandoned before its commit: a statement raises *)
(* (connection lost, timeout) or the request is cancelled, before or after *)
(* the INSERT was sent.  finally closes the connection without a commit    *)
(* and the catch-all answers 500.                                          *)
TodayFail(p) ==
    /\ pc[p] \in {"today_candidates", "today_insert"}
    /\ review_articles' = review_articles \cup AbandonedInsert(p)
    /\ Finish(p, ErrorRet("today", loc[p].today, 500))
    /\ UNCHANGED <<now, saved_words, daily_notes, nextWordId, nextNoteId,
                   nextArticleId>>
    /\ NoEmptyAnswer

----------------------------------------------------------------------------
(* POST /fastapi/review/import *)

ImportWordIds == {<<>>} \cup {<<i>> : i \in 1..MaxWordRows}

ImportSelect(p) ==
    /\ Accept(p)
    /\ LET today == DateOf(now)
       IN  IF ArticlesOn(today) # {}
           THEN \E a \in ArticlesOn(today) :
                    Goto(p, "import_write",
                         [today |-> today, row_id |-> a.id])
           ELSE Goto(p, "import_write",
                     [today |-> today, row_id |-> NULL])
    /\ UNCHANGED <<now, Others>>
    /\ NoEmptyAnswer

UpdateArticleContentAndList(a) == [a EXCEPT !.imported = TRUE, !.words_json = <<>>]

(* UPDATE ... SET title, content, article_type WHERE id = row.id           *)
UpdateArticleContent(a) == [a EXCEPT !.imported = TRUE]

ImportWrite(p, wids) ==
    /\ pc[p] = "import_write"
    /\ IF loc[p].row_id # NULL
       THEN /\ review_articles' =
                   {IF a.id = loc[p].row_id THEN UpdateArticleContent(a) ELSE a
                        : a \in review_articles}
            /\ UNCHANGED nextArticleId
            /\ Finish(p, OkRet("import", loc[p].today))
       ELSE IF InsertArticleOk(loc[p].today)
            THEN /\ review_articles' = review_articles \cup
                       {ArticleRow(nextArticleId, loc[p].today, wids, TRUE)}
                 /\ nextArticleId' = nextArticleId + 1
                 /\ Finish(p, OkRet("import", loc[p].today))
            ELSE /\ UNCHANGED <<review_articles, nextArticleId>>
                 /\ Finish(p, ErrorRet("import", loc[p].today, 500))
    /\ UNCHANGED <<now, saved_words, daily_notes, nextWordId, nextNoteId>>
    /\ NoEmptyAnswer

----------------------------------------------------------------------------
(* POST /fastapi/review/feedback *)

(* Two handlers are registered for the route; the router serves the one   *)
(* registered first, submit_review_feedback.                               *)

RequestRatings == 1..5

(* The 3-level mapping of the handler registered second.                   *)
get_fsrs_rating3(rating) ==
    IF rating = 2 THEN 3
    ELSE IF rating = 3 THEN 4
    ELSE 1

get_fsrs_rating(rating) ==
    IF rating = 1 THEN 1
    ELSE IF rating = 2 THEN 2
    ELSE IF rating = 3 THEN 3
    ELSE 4

(* The Card handed to the scheduler.  Only the Learning state gets a step. *)
BuildCard(word) ==
    IF word.reps = 0
    THEN [state |-> StateLearning, step |-> 0]
    ELSE LET st == IF word.state > 0 THEN word.state ELSE StateLearning
         IN  [state |-> st, step |-> IF st = StateLearning THEN 0 ELSE NULL]

(* Intervals of whole days, up to the days the clock covers: a longer      *)
(* interval is not due before the last instant either.                     *)
MaxIntervalDays == MaxTime \div TicksPerDay

IntervalDays == 1..MaxIntervalDays

(* Scheduler.review_card with the default learning steps (1 min, 10 min)   *)
(* and relearning step (10 min): the possible (state, interval) results.   *)
(* days = 0 stands for an interval of minutes.  A Relearning card without  *)
(* a step makes the scheduler raise.                                       *)
ReviewCard(card, grade) ==
    IF card.state = StateLearning
    THEN IF grade = 4
         THEN {[ok |-> TRUE, state |-> StateReview, days |-> d] : d \in IntervalDays}
         ELSE {[ok |-> TRUE, state |-> StateLearning, days |-> 0]}
    ELSE IF card.state = StateReview
    THEN IF grade = 1
         THEN {[ok |-> TRUE, state |-> StateRelearning, days |-> 0]}
         ELSE {[ok |-> TRUE, state |-> StateReview, days |-> d] : d \in IntervalDays}
    ELSE {[ok |-> FALSE, state |-> card.state, days |-> 0]}

DueAfter(t, days) == IF days = 0 THEN t + 1 ELSE t + days * TicksPerDay

FeedbackSelect(p, wid) ==
    /\ Accept(p)
    /\ IF wid \notin DOMAIN saved_words
       THEN Finish(p, ErrorRet("feedback", DateOf(now), 500))
       ELSE Goto(p, "feedback_update",
                 [word_id |-> wid, word |-> saved_words[wid]])
    /\ UNCHANGED <<now, Others>>
    /\ NoEmptyAnswer

ReviewedRowKeepsState(row, word, nc, t) ==
    [row EXCEPT !.elapsed_days = IF word.last_review # NULL
                                 THEN DaysBetween(t, word.last_review) ELSE 0,
                !.scheduled_days = nc.days,
                !.last_review = t,
                !.due = DueAfter(t, nc.days),
                !.reps = word.reps + 1]

ReviewedRow(row, word, nc, t) ==
    [row EXCEPT !.elapsed_days = IF word.last_review # NULL
                                 THEN DaysBetween(t, word.last_review) ELSE 0,
                !.scheduled_days = nc.days,
                !.last_review = t,
                !.due = DueAfter(t, nc.days),
                !.reps = word.reps + 1,
                !.state = nc.state]

FeedbackUpdateAllRows(p, rating) ==
    /\ pc[p] = "feedback_update"
    /\ LET word == loc[p].word
       IN  \E nc \in ReviewCard(BuildCard(word), get_fsrs_rating(rating)) :
               IF ~nc.ok
               THEN /\ UNCHANGED saved_words
                    /\ Finish(p, ErrorRet("feedback", DateOf(now), 500))
               ELSE /\ saved_words' =
                           [i \in DOMAIN saved_words |->
                               ReviewedRow(saved_words[i], word, nc, now)]
                    /\ Finish(p, OkRet("feedback", DateOf(now)))
    /\ UNCHANGED <<now, daily_notes, review_articles,
                   nextWordId, nextNoteId, nextArticleId>>
    /\ NoEmptyAnswer

FeedbackUpdate(p, rating) ==
    /\ pc[p] = "feedback_update"
    /\ LET word == loc[p].word
           wid == loc[p].word_id
       IN  \E nc \in ReviewCard(BuildCard(word), get_fsrs_rating(rating)) :
               IF ~nc.ok
               THEN /\ UNCHANGED saved_words
                    /\ Finish(p, ErrorRet("feedback", DateOf(now), 500))
               ELSE /\ saved_words' =
                           [i \in DOMAIN saved_words |->
                               IF i = wid
                               THEN ReviewedRow(saved_words[i], word, nc, now)
                               ELSE saved_words[i]]
                    /\ Finish(p, OkRet("feedback", DateOf(now)))
    /\ UNCHANGED <<now, daily_notes, review_articles,
                   nextWordId, nextNoteId, nextArticleId>>
    /\ NoEmptyAnswer

----------------------------------------------------------------------------
(* GET /fastapi/review/prompt *)

RECURSIVE Fact(_)
Fact(n) == IF n <= 1 THEN 1 ELSE n * Fact(n - 1)

(* ORDER BY CASE WHEN last_review IS NULL THEN 100                         *)
(*          ELSE DATEDIFF(NOW(), last_review) / scheduled_days END DESC    *)
(* as an ascending integer key; a division by zero is NULL and sorts last. *)
PromptRank(sw, t) ==
    LET L == Fact(MaxIntervalDays)
    IN  [i \in DOMAIN sw |->
            IF sw[i].last_review = NULL THEN 0 - 100 * L
            ELSE IF sw[i].scheduled_days = 0 THEN 1
            ELSE 0 - (((DateOf(t) - DateOf(sw[i].last_review)) * L)
                          \div sw[i].scheduled_days)]

PromptRet(day, words) ==
    [op |-> "prompt", status |-> 200, today |-> day, ids |-> <<>>,
     words |-> words, is_new |-> FALSE, article |-> FALSE]

PromptRead(p) ==
    /\ Accept(p)
    /\ LET today == DateOf(now)
       IN  IF ArticlesOn(today) # {}
           THEN \E a \in ArticlesOn(today) :
                    IF a.words_json = <<>>
                    THEN Finish(p, ErrorRet("prompt", today, 500))
                    ELSE \E ws \in Perms(Range(a.words_json) \cap DOMAIN saved_words) :
                             Finish(p, PromptRet(today, ws))
           ELSE \E ws \in OrderByLimit(DOMAIN saved_words,
                                       PromptRank(saved_words, now), BatchLimit) :
                    Finish(p, PromptRet(today, ws))
    /\ UNCHANGED <<now, Others>>
    /\ NoEmptyAnswer

----------------------------------------------------------------------------
(* save_word_to_db, called by POST /fastapi/quick-lookup *)

NotesOn(day) == {n \in DOMAIN daily_notes : daily_notes[n].day = day}

Saving == {q \in Procs : pc[q] = "save_write"}

SaveSelect(p, w) ==
    /\ Accept(p)
    /\ LET today == DateOf(now)
       IN  IF \E i \in DOMAIN saved_words : saved_words[i].word = w
           THEN Finish(p, OkRet("save", today))
           ELSE /\ nextWordId + Cardinality(Saving) <= MaxWordRows
                /\ IF NotesOn(today) # {}
                   THEN \E n \in NotesOn(today) :
                            Goto(p, "save_write",
                                 [today |-> today, word |-> w, note_id |-> n])
                   ELSE Goto(p, "save_write",
                             [today |-> today, word |-> w, note_id |-> NULL])
    /\ UNCHANGED <<now, Others>>
    /\ NoEmptyAnswer

SaveWrite(p) ==
    /\ pc[p] = "save_write"
    /\ LET note == IF loc[p].note_id # NULL THEN loc[p].note_id ELSE nextNoteId
        IN  /\ IF loc[p].note_id # NULL
               THEN /\ daily_notes' =
                           [daily_notes EXCEPT ![note].word_count = @ + 1]
                    /\ UNCHANGED nextNoteId
               ELSE /\ daily_notes' =
                           [n \in DOMAIN daily_notes \cup {note} |->
                               IF n = note
                               THEN [day |-> loc[p].today, word_count |-> 1]
                               ELSE daily_notes[n]]
                    /\ nextNoteId' = nextNoteId + 1
            /\ saved_words' =
                   [i \in DOMAIN saved_words \cup {nextWordId} |->
                       IF i = nextWordId
                       THEN NewWordRow(loc[p].word, note)
                       ELSE saved_words[i]]
            /\ nextWordId' = nextWordId + 1
    /\ Finish(p, OkRet("save", loc[p].today))
    /\ UNCHANGED <<now, review_articles, nextArticleId>>
    /\ NoEmptyAnswer

----------------------------------------------------------------------------
(* DELETE /fastapi/saved-words/{word_id} *)

(* The client deletes a word it was shown: an identifier already issued.   *)
DeleteSelect(p, wid) ==
    /\ Accept(p)
    /\ Goto(p, "delete_write",
            [word_id |-> wid,
             note_id |-> IF wid \in DOMAIN saved_words
                         THEN saved_words[wid].note_id ELSE NULL])
    /\ UNCHANGED <<now, Others>>
    /\ NoEmptyAnswer

Greatest(a, b) == IF a >= b THEN a ELSE b

DeleteWrite(p) ==
    /\ pc[p] = "delete_write"
    /\ saved_words' = [i \in DOMAIN saved_words \ {loc[p].word_id} |-> saved_words[i]]
    /\ IF loc[p].note_id # NULL
       THEN daily_notes' =
                [daily_notes EXCEPT ![loc[p].note_id].word_count = Greatest(0, @ - 1)]
       ELSE UNCHANGED daily_notes
    /\ Finish(p, OkRet("delete", DateOf(now)))
    /\ UNCHANGED <<now, review_articles, nextWordId, nextNoteId, nextArticleId>>
    /\ NoEmptyAnswer

----------------------------------------------------------------------------
Next ==
    \/ Tick
    \/ \E p \in Procs : TodaySelectArticle(p)
    \/ \E p \in Procs : TodaySelectCandidates(p)
    \/ \E p \in Procs : TodayInsert(p)
    \/ \E p \in Procs : TodayFail(p)
    \/ \E p \in Procs : ImportSelect(p)
    \/ \E p \in Procs : \E wids \in ImportWordIds : ImportWrite(p, wids)
    \/ \E p \in Procs : \E wid \in 1..MaxWordRows : FeedbackSelect(p, wid)
    \/ \E p \in Procs : \E r \in RequestRatings : FeedbackUpdate(p, r)
    \/ \E p \in Procs : PromptRead(p)
    \/ \E p \in Procs : \E w \in Texts : SaveSelect(p, w)
    \/ \E p \in Procs : SaveWrite(p)
    \/ \E p \in Procs : \E wid \in 1..(nextWordId - 1) : DeleteSelect(p, wid)
    \/ \E p \in Procs : DeleteWrite(p)

Spec == Init /\ [][Next]_vars

----------------------------------------------------------------------------
(* The queue builder on a table larger than the batch size: one           *)
(* get_today_review runs, on a table of new words, reviewed words that are *)
(* due (the two latest of them due at the same instant) and reviewed words *)
(* that are not due yet.                                                   *)

BatchNow == BatchLimit + MaxBatchExtra + 2

BatchDueCounts == (0..2) \cup ((BatchLimit - 2)..(BatchLimit + MaxBatchExtra))

ReviewedRow0(due) ==
    [word |-> 0, note_id |-> NULL, reps |-> 1, due |-> due,
     last_review |-> 0, state |-> StateReview,
     scheduled_days |-> 1, elapsed_days |-> 0]

BatchTable(nNew, nDue, nLater) ==
    [i \in 1..(nNew + nDue + nLater) |->
        IF i <= nNew THEN NewWordRow(0, NULL)
        ELSE IF i <= nNew + nDue
        THEN LET k == i - nNew
             IN  ReviewedRow0(IF k = 1 THEN Greatest(nDue - 1, 0) ELSE nDue - k + 1)
        ELSE ReviewedRow0(BatchNow + 1)]

InitBatch ==
    /\ now = BatchNow
    /\ \E nNew \in 0..MaxBatchExtra : \E nDue \in BatchDueCounts : \E nLater \in 0..1 :
           /\ saved_words = BatchTable(nNew, nDue, nLater)
           /\ nextWordId = nNew + nDue + nLater + 1
    /\ daily_notes = <<>>
    /\ review_articles = {}
    /\ nextNoteId = 1
    /\ nextArticleId = 1
    /\ pc = [p \in Procs |-> "idle"]
    /\ loc = [p \in Procs |-> NoLoc]
    /\ resp = NoRet
    /\ requests = MaxRequests - 1
    /\ empty_dates = {}

NextBatch ==
    \/ \E p \in Procs : TodaySelectArticle(p)
    \/ \E p \in Procs : TodaySelectCandidates(p)
    \/ \E p \in Procs : TodayInsert(p)

SpecBatch == InitBatch /\ [][NextBatch]_vars

----------------------------------------------------------------------------
(* Properties *)

(* C1: after any interleaving of get_today_review and                      *)
(* import_review_article calls, concurrent ones on the same date included, *)
(* review_articles holds at most one row per review_date.                  *)
C1_OneRowPerDate ==
    \A a \in review_articles : \A b \in review_articles :
        a.review_date = b.review_date => a = b

(* Two callers raced on a date: one inserted the row, the insert of the    *)
(* other was refused.                                                      *)
C1_Witness ==
    /\ resp.op \in {"today", "import"}
    /\ resp.status = 500
    /\ ArticlesOn(resp.today) # {}

(* C2: when two get_today_review calls race on a date that has no row yet  *)
(* and the candidate set is non-empty, exactly one row is created and both *)
(* callers return the same ordered identifier list: every caller that      *)
(* reaches the insert answers with the list of the one row of the date.    *)
C2_RacersReturnSameList ==
    [][\A p \in Procs :
          (/\ pc[p] = "today_insert"
           /\ TodayInsert(p)
           /\ \A a \in ArticlesOn(loc[p].today) : ~a.imported)
          => /\ resp'.status = 200
             /\ \E a \in review_articles' :
                    /\ a.review_date = loc[p].today
                    /\ a.words_json = resp'.ids
             /\ Cardinality({a \in review_articles' :
                                a.review_date = loc[p].today}) = 1]_vars

(* C3: once a row exists for a date, no later operation changes its        *)
(* words_json identifier list (nor removes the row).                       *)
C3_ListNeverChanges ==
    [][\A a \in review_articles :
          \E b \in review_articles' :
              /\ b.id = a.id
              /\ b.review_date = a.review_date
              /\ b.words_json = a.words_json]_vars

(* A row built by get_today_review from two words, later updated by        *)
(* import_review_article (an import only inserts lists of at most one id). *)
C3_Witness ==
    \E a \in review_articles : a.imported /\ Len(a.words_json) >= 2

(* C4: if the INSERT of get_today_review hits the uniqueness violation     *)
(* because a concurrent caller inserted first, the call re-reads and       *)
(* returns the existing row; the violation is never returned as an error.  *)
C4_ViolationBecomesReread ==
    [][\A p \in Procs :
          (/\ pc[p] = "today_insert"
           /\ TodayInsert(p)
           /\ ~InsertArticleOk(loc[p].today))
          => /\ resp'.status = 200
             /\ \E a \in ArticlesOn(loc[p].today) : resp'.ids = a.words_json]_vars

(* C5: when a row already exists for today, get_today_review returns the   *)
(* stored list in stored order, writes nothing and reports                 *)
(* is_new_article = false, whatever has become due or was saved since.     *)
C5_FastPathReadOnly ==
    [][(/\ resp'.op = "today"
        /\ \E p \in Procs : Accept(p)
        /\ pc' = pc
        /\ ArticlesOn(DateOf(now)) # {})
       => /\ resp'.status = 200
          /\ resp'.is_new = FALSE
          /\ resp'.article
          /\ \E a \in ArticlesOn(DateOf(now)) : resp'.ids = a.words_json
          /\ review_articles' = review_articles
          /\ saved_words' = saved_words
          /\ daily_notes' = daily_notes]_vars

(* The stored row was returned although the candidates of the moment are   *)
(* no longer the stored list.                                              *)
C5_Witness ==
    /\ resp.op = "today"
    /\ resp.status = 200
    /\ resp.article
    /\ ~resp.is_new
    /\ resp.ids # <<>>
    /\ Candidates(saved_words, now) # Range(resp.ids)

(* C6: when nothing is due or new and no row exists, get_today_review      *)
(* answers with the empty marker and inserts nothing; a later call on the  *)
(* same date, made once a candidate exists, returns a non-empty queue.     *)
C6_EmptyThenLaterQueue ==
    [][/\ \A p \in Procs :
            (/\ pc[p] = "today_candidates"
             /\ Candidates(saved_words, now) = {})
            => (pc'[p] = "today_candidates" \/
                (/\ review_articles' = review_articles
                 /\ resp'.op = "today" /\ resp'.ids = <<>> /\ ~resp'.article))
       /\ (/\ resp'.op = "today"
           /\ \E p \in Procs : \/ TodaySelectArticle(p)
                                \/ TodaySelectCandidates(p)
                                \/ TodayInsert(p)
           /\ resp'.today \in empty_dates
           /\ Candidates(saved_words, now) # {})
          => (resp'.status = 200 /\ resp'.ids # <<>>)]_vars

(* C7: no sequence of operations persists a review_articles row whose      *)
(* identifier list is empty.                                               *)
C7_NoEmptyLock ==
    \A a \in review_articles : a.words_json # <<>>

IsDueOrNew(row, t) == (row.due # NULL /\ row.due <= t) \/ row.reps = 0

IsDueReviewed(row, t) == row.reps > 0 /\ row.due # NULL /\ row.due <= t

NoRepeats(q) == \A i \in 1..Len(q) : \A j \in 1..Len(q) : q[i] = q[j] => i = j

Built(p) == pc[p] = "today_candidates" /\ pc'[p] = "today_insert"

(* C8: a queue newly created by get_today_review contains only items that  *)
(* satisfy due <= now or reps = 0 when it is built, at most 30 of them,    *)
(* and all of them when there are 30 or fewer; that list is the one        *)
(* persisted.                                                              *)
C8_QueueIsCandidateBatch ==
    [][\A p \in Procs :
          /\ Built(p) =>
               LET q == loc'[p].word_ids
                   C == {i \in DOMAIN saved_words : IsDueOrNew(saved_words[i], now)}
               IN  /\ NoRepeats(q)
                   /\ Range(q) \subseteq C
                   /\ Len(q) <= 30
                   /\ Cardinality(C) <= 30 => Range(q) = C
          /\ (/\ pc[p] = "today_insert"
              /\ pc'[p] = "idle"
              /\ review_articles' # review_articles) =>
               /\ review_articles' \ review_articles =
                      {ArticleRow(nextArticleId, loc[p].today, loc[p].word_ids, FALSE)}
               /\ resp'.ids = loc[p].word_ids]_vars

(* More than 30 candidates, and a queue of 30 has been persisted.          *)
C8_Witness ==
    /\ Cardinality(Candidates(saved_words, now)) > 30
    /\ \E a \in review_articles : Len(a.words_json) = 30
    /\ resp.op = "today" /\ resp.is_new /\ Len(resp.ids) = 30

(* C9: in a newly created queue every reviewed due item precedes every     *)
(* never-reviewed item, the due items are in ascending due order, and      *)
(* never-reviewed items only fill the places that fewer than 30 due items  *)
(* leave free.                                                             *)
C9_DueFirstThenNew ==
    [][\A p \in Procs :
          Built(p) =>
            LET q == loc'[p].word_ids
                D == {i \in DOMAIN saved_words : IsDueReviewed(saved_words[i], now)}
            IN  /\ \A i \in 1..Len(q) : \A j \in 1..Len(q) :
                       (saved_words[q[i]].reps > 0 /\ saved_words[q[j]].reps = 0)
                           => i < j
                /\ \A i \in 1..Len(q) : \A j \in 1..Len(q) :
                       (i < j /\ saved_words[q[i]].reps > 0 /\ saved_words[q[j]].reps > 0)
                           => saved_words[q[i]].due <= saved_words[q[j]].due
                /\ (\E i \in 1..Len(q) : saved_words[q[i]].reps = 0)
                       => Cardinality(D) < 30
                /\ Cardinality(D) < 30 => D \subseteq Range(q)
                /\ Cardinality(D) >= 30 => Range(q) \subseteq D]_vars

(* A full batch in which new items fill what the due items leave free,     *)
(* with new items left out.                                                *)
C9_Witness ==
    \E p \in Procs :
        /\ pc[p] = "today_insert"
        /\ Len(loc[p].word_ids) = 30
        /\ \E i \in 1..30 : saved_words[loc[p].word_ids[i]].reps > 0
        /\ \E i \in 1..30 : saved_words[loc[p].word_ids[i]].reps = 0
        /\ \E w \in DOMAIN saved_words :
               saved_words[w].reps = 0 /\ w \notin Range(loc[p].word_ids)

(* C10: feedback for an item whose last_review falls on the calendar date  *)
(* of now is rejected and leaves every memory field of the item unchanged: *)
(* a handler that read such a last_review writes nothing.                  *)
C10_SecondReviewSameDayIsNoOp ==
    [][\A p \in Procs :
          (/\ pc[p] = "feedback_update"
           /\ pc'[p] = "idle"
           /\ loc[p].word_id \in DOMAIN saved_words
           /\ loc[p].word = saved_words[loc[p].word_id]
           /\ saved_words[loc[p].word_id].last_review # NULL
           /\ DateOf(saved_words[loc[p].word_id].last_review) = DateOf(now))
          => saved_words' = saved_words]_vars

(* A feedback handler completes its UPDATE step.                           *)
FeedbackDone(p) == pc[p] = "feedback_update" /\ pc'[p] = "idle"

(* The row a feedback handler read has since been rewritten by another     *)
(* submission applied on the date of now.                                  *)
LostRace(p) ==
    /\ loc[p].word_id \in DOMAIN saved_words
    /\ loc[p].word # saved_words[loc[p].word_id]
    /\ saved_words[loc[p].word_id].last_review # NULL
    /\ DateOf(saved_words[loc[p].word_id].last_review) = DateOf(now)

(* C11: when two feedback submissions for one item race on one day, at     *)
(* most one is applied: the submission that completes after the other was  *)
(* applied leaves the stored row as it is.                                 *)
C11_RaceAppliesOne ==
    [][\A p \in Procs :
          (FeedbackDone(p) /\ LostRace(p)) => saved_words' = saved_words]_vars

(* C12: feedback for a word_id that is not in saved_words is answered with *)
(* 404 and changes nothing in the store.                                   *)
C12_AbsentWordIsNotFound ==
    [][((\E p \in Procs : Accept(p)) /\ pc' = pc /\ resp'.op = "feedback")
       => /\ resp'.status = 404
          /\ UNCHANGED Others]_vars

(* The ratings the service documents for its clients (1 to 4).             *)
SupportedRatings == 1..4

(* C13: a feedback submission whose rating is outside the supported set    *)
(* fails and leaves the stored memory state unchanged.                     *)
C13_InvalidRatingRejected ==
    [][\A p \in Procs : \A r \in RequestRatings \ SupportedRatings :
          FeedbackUpdate(p, r)
              => (saved_words' = saved_words /\ resp'.status # 200)]_vars

(* A feedback handler completes and its UPDATE rewrote the row of its      *)
(* word: the review was applied.                                           *)
Applied(p) ==
    /\ FeedbackDone(p)
    /\ resp'.status = 200
    /\ loc[p].word_id \in DOMAIN saved_words

(* C14: after every applied review at time now, the stored due is now plus *)
(* the stored scheduled_days whole days.                                   *)
C14_DueIsNowPlusScheduledDays ==
    [][\A p \in Procs :
          Applied(p) =>
              LET row == saved_words'[loc[p].word_id]
              IN  row.due = now + row.scheduled_days * TicksPerDay]_vars

(* C15: after every applied review the stored scheduled_days is at least   *)
(* 1, and the item is not due again before the next day.                   *)
C15_IntervalAtLeastOneDay ==
    [][\A p \in Procs :
          Applied(p) =>
              LET row == saved_words'[loc[p].word_id]
              IN  /\ row.scheduled_days >= 1
                  /\ DateOf(row.due) > DateOf(now)]_vars

(* C16: a get_today_review that fails or is abandoned before its commit    *)
(* leaves no row behind; a get_today_review that ends either adds nothing  *)
(* or adds the one row that carries its complete identifier list.          *)
C16_NoPartialRow ==
    [][\A p \in Procs :
          (pc[p] \in {"today_candidates", "today_insert"} /\ pc'[p] = "idle")
          => IF resp'.status = 200 /\ pc[p] = "today_insert"
             THEN review_articles' = review_articles \cup
                      {ArticleRow(nextArticleId, loc[p].today, loc[p].word_ids, FALSE)}
             ELSE review_articles' = review_articles]_vars

(* A queue build ended in an error and the date has no row.                *)
C16_Witness ==
    /\ resp.op = "today"
    /\ resp.status = 500
    /\ ArticlesOn(resp.today) = {}
    /\ Candidates(saved_words, now) # {}

(* The review of a never-reviewed item with rating Good (3) is applied,    *)
(* no other submission for the item being in the way.                      *)
FirstGoodReview(p) ==
    /\ FeedbackUpdate(p, 3)
    /\ Applied(p)
    /\ loc[p].word = saved_words[loc[p].word_id]
    /\ loc[p].word.reps = 0

(* C17: reviewing a never-reviewed item with rating Good at time T yields  *)
(* reps = 1, state Learning and due = T plus the scheduled interval in     *)
(* days.                                                                   *)
C17_FirstGoodReview ==
    [][\A p \in Procs :
          FirstGoodReview(p) =>
              LET row == saved_words'[loc[p].word_id]
              IN  /\ row.reps = 1
                  /\ row.state = StateLearning
                  /\ row.due = now + row.scheduled_days * TicksPerDay]_vars

IsNewState(row) == row.state \notin {StateLearning, StateReview, StateRelearning}

(* C18: in every reachable state and for every item, reps = 0 exactly when *)
(* last_review is absent, exactly when the lifecycle state is New.         *)
C18_NewIffNeverReviewed ==
    \A i \in DOMAIN saved_words :
        /\ (saved_words[i].reps = 0) <=> (saved_words[i].last_review = NULL)
        /\ (saved_words[i].reps = 0) <=> IsNewState(saved_words[i])

(* A review was just applied to an item that had never been reviewed (it   *)
(* carries reps = 1 and this instant as last_review).                      *)
C18_Witness ==
    /\ resp.op = "feedback"
    /\ resp.status = 200
    /\ now > 0
    /\ \E i \in DOMAIN saved_words :
           saved_words[i].reps = 1 /\ saved_words[i].last_review = now

(* C19: reps counts the applied feedback submissions: every applied review *)
(* raises the stored reps of its item by exactly 1, and a submission that  *)
(* fails leaves it unchanged, concurrent submissions included.             *)
C19_RepsCountsAppliedReviews ==
    [][\A p \in Procs :
          (FeedbackDone(p) /\ loc[p].word_id \in DOMAIN saved_words) =>
              LET before == saved_words[loc[p].word_id].reps
                  after == saved_words'[loc[p].word_id].reps
              IN  IF resp'.status = 200
                  THEN after = before + 1
                  ELSE after = before]_vars

(* The memory fields of a row.                                             *)
Memory(row) ==
    <<row.reps, row.elapsed_days, row.scheduled_days, row.last_review,
      row.due, row.state>>

(* C20: the memory fields of an item change only in the step that applies  *)
(* a feedback submission for that item; every other step (feedback for     *)
(* another item, get_today_review, get_review_prompt, import, saving a     *)
(* word) leaves them as they are.                                          *)
C20_MemoryChangedOnlyByOwnReview ==
    [][\A i \in DOMAIN saved_words \cap DOMAIN saved_words' :
          Memory(saved_words'[i]) # Memory(saved_words[i])
              => \E p \in Procs : Applied(p) /\ loc[p].word_id = i]_vars

(* A review was just applied to one item while another item, never         *)
(* reviewed, is stored beside it.                                          *)
C20_Witness ==
    /\ resp.op = "feedback"
    /\ resp.status = 200
    /\ \E i \in DOMAIN saved_words : \E j \in DOMAIN saved_words :
           /\ i # j
           /\ saved_words[i].reps > 0 /\ saved_words[i].last_review = now
           /\ saved_words[j].reps = 0

(* The lifecycle rules for a submission of rating r that handler p         *)
(* completes: stored is the row before the step, after the row it leaves.  *)
LifecycleRules(p, r) ==
    LET stored == loc[p].word
        after == saved_words'[loc[p].word_id]
        grade == get_fsrs_rating(r)
    IN  /\ resp'.status = 200 => ~IsNewState(after)
        /\ (resp'.status = 200 /\ stored.state = StateReview /\ grade = 1)
               => after.state = StateRelearning
        /\ (resp'.status = 200 /\ grade = 1
                /\ (IsNewState(stored) \/ stored.state = StateLearning))
               => after.state = StateLearning
        /\ (stored.state = StateRelearning /\ grade >= 3)
               => /\ resp'.status = 200
                  /\ after.state \in {StateRelearning, StateReview}

(* C21: no applied review returns an item to New; Again on an item in      *)
(* Review moves it to Relearning; Again on an item that never left         *)
(* Learning keeps it in Learning; a successful review of an item in        *)
(* Relearning is applied and leaves it in Relearning or back in Review.    *)
C21_LifecycleTransitions ==
    [][\A p \in Procs : \A r \in RequestRatings :
          (FeedbackUpdate(p, r) /\ loc[p].word_id \in DOMAIN saved_words)
              => LifecycleRules(p, r)]_vars

(* C22: after an applied review the stored elapsed_days is 0 when it was   *)
(* the first review of the item and otherwise the whole days between the   *)
(* previous last_review and now; last_review is now; elapsed_days is never *)
(* negative.                                                               *)
C22_ElapsedDaysAndLastReview ==
    [][\A p \in Procs :
          Applied(p) =>
              LET before == saved_words[loc[p].word_id]
                  after == saved_words'[loc[p].word_id]
              IN  /\ after.last_review = now
                  /\ after.elapsed_days >= 0
                  /\ after.elapsed_days =
                         IF before.last_review = NULL THEN 0
                         ELSE DaysBetween(now, before.last_review)]_vars

(* The feedback endpoint on its own: concurrent submissions on the stored  *)
(* words while time passes.                                                *)
NextFeedback ==
    \/ Tick
    \/ \E p \in Procs : \E wid \in 1..MaxWordRows : FeedbackSelect(p, wid)
    \/ \E p \in Procs : \E r \in RequestRatings : FeedbackUpdate(p, r)

SpecFeedback == Init /\ [][NextFeedback]_vars

(* Rating.Again, Rating.Hard, Rating.Good, Rating.Easy of the library, by  *)
(* front-end level.                                                        *)
OfficialRating == <<1, 2, 3, 4>>

PromptAnswers ==
    LET today == DateOf(now)
    IN  IF ArticlesOn(today) # {}
        THEN UNION {IF a.words_json = <<>>
                    THEN {[status |-> 500, words |-> <<>>]}
                    ELSE {[status |-> 200, words |-> ws] :
                             ws \in Perms(Range(a.words_json) \cap DOMAIN saved_words)}
                        : a \in ArticlesOn(today)}
        ELSE {[status |-> 200, words |-> ws] :
                 ws \in OrderByLimit(DOMAIN saved_words,
                                     PromptRank(saved_words, now), BatchLimit)}

(* The word lists get_today_review can answer with in the current state.   *)
TodayAnswers ==
    LET today == DateOf(now)
    IN  IF ArticlesOn(today) # {}
        THEN {[status |-> 200, words |-> ExistingWords(saved_words, a.words_json)] :
                 a \in ArticlesOn(today)}
        ELSE {[status |-> 200, words |-> q] : q \in SelectDueOrNew(saved_words, now)}

(* C24: in every reachable state the word set get_review_prompt returns is *)
(* the word set get_today_review returns for the same date.                *)
C24_PromptWordsAreTodaysWords ==
    \A pa \in PromptAnswers : \A ta \in TodayAnswers :
        /\ pa.status = 200
        /\ Range(pa.words) = Range(ta.words)

(* The rows a step adds to review_articles.                                *)
NewArticles ==
    {a \in review_articles' : \A b \in review_articles : b.id # a.id}

(* C25: every identifier of a persisted row was selected by the queue      *)
(* builder when the row was created: a row with identifiers is only ever   *)
(* inserted by get_today_review, with the list its candidate query gave.   *)
C25_ListComesFromQueueBuilder ==
    [][\A a \in NewArticles : \A i \in Range(a.words_json) :
          \E p \in Procs :
              /\ pc[p] = "today_insert"
              /\ TodayInsert(p)
              /\ a.words_json = loc[p].word_ids]_vars

(* C26: after any interleaving of save_word_to_db calls, each word appears *)
(* in at most one saved_words row.                                         *)
C26_OneRowPerWord ==
    \A i \in DOMAIN saved_words : \A j \in DOMAIN saved_words :
        saved_words[i].word = saved_words[j].word => i = j

(* submit_review_feedback on a stored row: the review is applied unless    *)
(* the scheduler raises.                                                   *)
SubmitApplies(row, rating) ==
    \E nc \in ReviewCard(BuildCard(row), get_fsrs_rating(rating)) : nc.ok

SubmitColumns ==
    {"stability", "difficulty", "elapsed_days", "scheduled_days",
     "last_review", "due", "reps", "state"}

(* review_feedback on a stored row: a row reviewed today is rejected by    *)
(* the day check; otherwise the handler reaches FSRSCore, a name that is   *)
(* not defined, and fails before its UPDATE.                               *)
ReviewFeedbackApplies(row, rating, t) ==
    IF row.last_review # NULL /\ DateOf(row.last_review) = DateOf(t)
    THEN FALSE
    ELSE FALSE

ReviewFeedbackColumns ==
    {"stability", "difficulty", "elapsed_days", "scheduled_days",
     "last_review", "reps", "state"}

(* C27: the two handlers registered for POST /fastapi/review/feedback      *)
(* agree, for every stored item and every rating, on whether the review is *)
(* applied, on the grade the rating maps to and on the columns updated.    *)
C27_HandlersEquivalent ==
    \A i \in DOMAIN saved_words : \A r \in RequestRatings :
        /\ SubmitApplies(saved_words[i], r)
               <=> ReviewFeedbackApplies(saved_words[i], r, now)
        /\ get_fsrs_rating(r) = get_fsrs_rating3(r)
        /\ SubmitColumns = ReviewFeedbackColumns

WordsOfNote(n) == {i \in DOMAIN saved_words : saved_words[i].note_id = n}

(* C28: after any interleaving of save_word_to_db and delete_saved_word    *)
(* calls, the word_count of every daily_notes row is the number of         *)
(* saved_words rows that refer to it, and is never negative.               *)
C28_WordCountMatchesRows ==
    \A n \in DOMAIN daily_notes :
        /\ daily_notes[n].word_count = Cardinality(WordsOfNote(n))
        /\ daily_notes[n].word_count >= 0

(* A handler that reads today's queue row answers in this step.            *)
ReadsTodaysRow(p) ==
    /\ ArticlesOn(DateOf(now)) # {}
    /\ TodaySelectArticle(p) \/ PromptRead(p)

(* C29: whenever a queue row exists for today, get_today_review and        *)
(* get_review_prompt both succeed, also when the stored list is empty or   *)
(* listed words have been deleted, and return the listed words that still  *)
(* exist, get_today_review in the stored order.                            *)
C29_ReadersOfTodaysRowSucceed ==
    [][\A p \in Procs :
          ReadsTodaysRow(p) =>
              /\ resp'.status = 200
              /\ \E a \in ArticlesOn(DateOf(now)) :
                     IF resp'.op = "today"
                     THEN resp'.words = ExistingWords(saved_words, a.words_json)
                     ELSE Range(resp'.words) =
                              Range(a.words_json) \cap DOMAIN saved_words]_vars

----------------------------------------------------------------------------
(* The daily routine of one learner: each day the queue is requested once, *)
(* every queued item is reviewed that day, in the order of the list, and   *)
(* then the day ends.  No word is saved or deleted.  The handlers run one  *)
(* at a time, so each is one step.                                         *)
(*                                                                         *)
(* Instants are kept relative to the current day, which is always day 1:   *)
(* when a day ends the stored instants move back by one day.  The handlers *)
(* read stored instants only in due <= NOW(), review_date = today and the  *)
(* difference NOW() - last_review, and reps only in reps = 0, so instants  *)
(* before day 0 are kept as instant 0 and reps above 1 as 1.               *)

LiveNow == TicksPerDay

(* The learner rates every item Hard or Good.                              *)
LiveRatings == {2, 3}

LiveDueCounts == {0, BatchLimit - 1, BatchLimit}

LiveTable(nNew, nDue, st) ==
    [i \in 1..(nNew + nDue) |->
        IF i <= nNew THEN StoredWord(i, 0, 0, 0)
        ELSE StoredWord(i, 1, st, IF st = StateReview THEN 1 ELSE 0)]

InitLive ==
    /\ now = LiveNow
    /\ \E nNew \in 1..MaxBatchExtra : \E nDue \in LiveDueCounts :
       \E st \in {StateLearning, StateReview} :
           /\ saved_words = LiveTable(nNew, nDue, st)
           /\ daily_notes = <<[day |-> 0, word_count |-> nNew + nDue]>>
           /\ nextWordId = nNew + nDue + 1
    /\ nextNoteId = 2
    /\ review_articles = {}
    /\ nextArticleId = 1
    /\ pc = [p \in Procs |-> "idle"]
    /\ loc = [p \in Procs |-> NoLoc]
    /\ resp = NoRet
    /\ requests = 0
    /\ empty_dates = {}

(* The subsets of S of k elements.                                         *)
RECURSIVE KSubsets(_, _)
KSubsets(S, k) ==
    IF k = 0 THEN {{}}
    ELSE IF Cardinality(S) < k THEN {}
    ELSE IF Cardinality(S) = k THEN {S}
    ELSE LET x == CHOOSE y \in S : TRUE
         IN  {T \cup {x} : T \in KSubsets(S \ {x}, k - 1)}
                 \cup KSubsets(S \ {x}, k)

(* ORDER BY (CASE WHEN reps = 0 THEN 1 ELSE 0 END) ASC, due ASC: row x is  *)
(* sorted before row y.  A NULL due sorts before every date.               *)
NewLast(row) == IF row.reps = 0 THEN 1 ELSE 0

SortsBefore(sw, x, y) ==
    \/ NewLast(sw[x]) < NewLast(sw[y])
    \/ NewLast(sw[x]) = NewLast(sw[y]) /\ sw[x].due < sw[y].due

First(sw, S) == {x \in S : \A y \in S : ~SortsBefore(sw, y, x)}

(* ORDER BY ... LIMIT k as the sets of rows the server may return.         *)
RECURSIVE OrderByLimitSets(_, _, _)
OrderByLimitSets(sw, S, k) ==
    IF S = {} \/ k = 0 THEN {{}}
    ELSE IF Cardinality(First(sw, S)) >= k
    THEN KSubsets(First(sw, S), k)
    ELSE {First(sw, S) \cup r :
             r \in OrderByLimitSets(sw, S \ First(sw, S),
                                    k - Cardinality(First(sw, S)))}

(* The rows of a result set in their sort order, ties by identifier.       *)
InSortOrder(sw, T) ==
    [j \in 1..Cardinality(T) |->
        CHOOSE x \in T :
            Cardinality({y \in T : SortsBefore(sw, y, x)
                                      \/ (~SortsBefore(sw, x, y) /\ y < x)}) = j - 1]

(* The candidate query of get_today_review; rows with equal sort keys are  *)
(* listed by identifier, every choice of rows at the LIMIT is kept.        *)
LiveSelectDueOrNew(sw, t) ==
    {InSortOrder(sw, T) : T \in OrderByLimitSets(sw, Candidates(sw, t), BatchLimit)}

ReviewedToday(i) ==
    /\ saved_words[i].last_review # NULL
    /\ DateOf(saved_words[i].last_review) = DateOf(now)

(* The items of today's list that are still to be reviewed today.          *)
ToReview ==
    UNION {{i \in Range(a.words_json) : i \in DOMAIN saved_words /\ ~ReviewedToday(i)}
              : a \in ArticlesOn(DateOf(now))}

LiveUnchanged ==
    UNCHANGED <<now, daily_notes, nextWordId, nextNoteId, pc, loc, requests>>

(* get_today_review on a date without a row.                               *)
LiveQueue ==
    LET today == DateOf(now)
    IN  /\ ArticlesOn(today) = {}
        /\ today \notin empty_dates
        /\ \E q \in LiveSelectDueOrNew(saved_words, now) :
               IF q = <<>>
               THEN /\ resp' = TodayRet(today, FALSE, <<>>, <<>>, TRUE)
                    /\ empty_dates' = empty_dates \cup {today}
                    /\ UNCHANGED <<review_articles, nextArticleId>>
               ELSE /\ review_articles' = review_articles \cup
                           {ArticleRow(nextArticleId, today, q, FALSE)}
                    /\ nextArticleId' = nextArticleId + 1
                    /\ resp' = TodayRet(today, TRUE, q, q, TRUE)
                    /\ UNCHANGED empty_dates
        /\ UNCHANGED saved_words
        /\ LiveUnchanged

(* submit_review_feedback for the first item of today's list that has not  *)
(* been reviewed today.                                                    *)
LiveReview(rating) ==
    /\ ToReview # {}
    /\ \E a \in ArticlesOn(DateOf(now)) :
       LET left == SelectSeq(a.words_json, LAMBDA i : i \in ToReview)
           wid == left[1]
           word == saved_words[wid]
       IN  /\ left # <<>>
           /\ \E nc \in ReviewCard(BuildCard(word), get_fsrs_rating(rating)) :
                  IF ~nc.ok
                  THEN /\ UNCHANGED saved_words
                       /\ resp' = ErrorRet("feedback", DateOf(now), 500)
                  ELSE /\ saved_words' =
                              [saved_words EXCEPT
                                  ![wid] = ReviewedRow(saved_words[wid], word, nc, now)]
                       /\ resp' = OkRet("feedback", DateOf(now))
    /\ UNCHANGED <<review_articles, nextArticleId, empty_dates>>
    /\ LiveUnchanged

Rebase(t) == IF t = NULL THEN NULL ELSE Greatest(t - TicksPerDay, 0)

RebasedRow(row) ==
    [row EXCEPT !.due = Rebase(row.due),
                !.last_review = Rebase(row.last_review),
                !.reps = IF row.reps > 1 THEN 1 ELSE row.reps]

(* The day ends once its queue was requested and every queued item was     *)
(* reviewed.  The rows of review_articles for past dates are read by no    *)
(* handler and are left out.                                               *)
LiveNextDay ==
    /\ ArticlesOn(DateOf(now)) # {} \/ DateOf(now) \in empty_dates
    /\ ToReview = {}
    /\ saved_words' = [i \in DOMAIN saved_words |-> RebasedRow(saved_words[i])]
    /\ review_articles' = {}
    /\ nextArticleId' = 1
    /\ empty_dates' = {}
    /\ resp' = NoRet
    /\ LiveUnchanged

NextLive ==
    \/ LiveQueue
    \/ \E r \in LiveRatings : LiveReview(r)
    \/ LiveNextDay

(* A queue is requested every day, every queued item is reviewed on the    *)
(* day it is queued, and days pass.                                        *)
SpecLive ==
    /\ InitLive
    /\ [][NextLive]_vars
    /\ WF_vars(LiveQueue)
    /\ WF_vars(\E r \in LiveRatings : LiveReview(r))
    /\ WF_vars(LiveNextDay)

Queued(i) == \E a \in review_articles : i \in Range(a.words_json)

NeverReviewed(i) == i \in DOMAIN saved_words /\ saved_words[i].reps = 0

(* C30: when a queue is requested every day, every queued item is reviewed *)
(* on the day it is queued and no more words are saved, every item that    *)
(* was never reviewed is eventually included in some day's queue.          *)
C30_NewItemEventuallyQueued ==
    \A i \in 1..MaxBatchExtra : NeverReviewed(i) ~> Queued(i)

====
